---------------------------- MODULE Spec2Model ----------------------------
(***************************************************************************)
(* rsdiff: the diff engine of src/src/lib.rs.                              *)
(*                                                                         *)
(* Strings (paths, reports) are sequences of fragments; the empty string   *)
(* is << >>.  Bytes are 0..255.  A panic aborts the whole call tree, so    *)
(* every operation returns an outcome: either a result or a panic.         *)
(***************************************************************************)
EXTENDS Integers, Sequences, FiniteSets, TLC

VARIABLES
    left, right,      \* the two paths handed to the operation
    lobj, robj,       \* the filesystem objects the paths name
    pc,               \* position of the running operation
    d,                \* the Diff being built / returned
    panicked,         \* the panic message, << >> while none
    lrd, rrd,         \* the two readers of a streaming loop
    total_matches,    \* the loop's accumulator
    buffer_differ,    \* the comparator diff_nii selected
    lchunk, rchunk,   \* the chunk pair the two readers returned last
    chunk_count,      \* what the comparator last returned
    opens,            \* File::open calls made so far
    bufcalls,         \* Buffer Comparator invocations made so far
    lnames, rnames,   \* two directory listings (names only)
    stdout            \* what main printed

vars == <<left, right, lobj, robj, pc, d, panicked, lrd, rrd, total_matches,
          buffer_differ, lchunk, rchunk, chunk_count, opens, bufcalls,
          lnames, rnames, stdout>>

-----------------------------------------------------------------------------
(* Generic helpers *)

Min(a, b) == IF a < b THEN a ELSE b

Range(s) == {s[i] : i \in 1..Len(s)}

\* Vec::contains
Contains(s, x) == \E i \in 1..Len(s) : s[i] = x

\* str::ends_with
ends_with(s, suf) ==
    /\ Len(suf) <= Len(s)
    /\ SubSeq(s, Len(s) - Len(suf) + 1, Len(s)) = suf

\* Path::new(dir).join(f)
Join(dir, f) == dir \o <<"/">> \o f

\* An outcome of a call: a value, or the panic that aborted it.
Ok(v) == [panic |-> << >>, val |-> v]
Panic(msg) == [panic |-> msg, val |-> << >>]
IsPanic(o) == o.panic # << >>

-----------------------------------------------------------------------------
(* Diff::new *)

\* f32 results: a ratio num/den; 0/0 is NaN.
Ratio(n, m) == [num |-> n, den |-> m]
Unset == Ratio(-1, 1)
IsNaN(s) == s.den = 0 /\ s.num = 0

NewDiff(l, r) ==
    [left |-> l, right |-> r, matches |-> FALSE,
     left_only |-> << >>, right_only |-> << >>, common |-> << >>,
     similarity |-> Unset, additional_info |-> << >>,
     sub_diffs |-> << >>, report |-> << >>]

-----------------------------------------------------------------------------
(* Buffer Comparator *)

SizePanic == <<"Buffers supplied to rsdiff::diff_buffer must have the same length!">>

RECURSIVE CountEqFrom(_, _, _)
\* the zip loop of diff_buffer from position i on
CountEqFrom(l, r, i) ==
    IF i > Len(l) \/ i > Len(r) THEN 0
    ELSE (IF l[i] = r[i] THEN 1 ELSE 0) + CountEqFrom(l, r, i + 1)

diff_buffer(l, r) ==
    IF Len(l) # Len(r) THEN Panic(SizePanic)
    ELSE Ok(CountEqFrom(l, r, 1))

\* Little-endian decoding.  A decoded integer is kept as sign and magnitude,
\* the magnitude in base 256 (least significant digit first), since 64-bit
\* values do not fit the checker's integers.
RECURSIVE AddOne(_)
AddOne(digits) ==
    IF digits = << >> THEN << >>
    ELSE IF digits[1] < 255 THEN <<digits[1] + 1>> \o Tail(digits)
    ELSE <<0>> \o AddOne(Tail(digits))

Invert(digits) == [i \in 1..Len(digits) |-> 255 - digits[i]]

read_unsigned(bytes) == [neg |-> FALSE, mag |-> bytes]

read_signed(bytes) ==
    IF bytes[Len(bytes)] >= 128
    THEN [neg |-> TRUE, mag |-> AddOne(Invert(bytes))]
    ELSE [neg |-> FALSE, mag |-> bytes]

\* Cursor::read_{u,i}{16,32,64}::<LittleEndian>() at byte position pos:
\* Err (here << >>) when fewer than w bytes remain.
ReadElem(buf, pos, w, signed) ==
    IF pos + w > Len(buf) THEN << >>
    ELSE LET bytes == SubSeq(buf, pos + 1, pos + w)
         IN  <<IF signed THEN read_signed(bytes) ELSE read_unsigned(bytes)>>

BufferMismatch == <<"Catastrophic buffer mismatch failure">>

RECURSIVE TransmuteLoop(_, _, _, _, _, _)
\* the "while let Ok(a) = left_rdr.read_X()" loop of diff_transmute_buffers_X
TransmuteLoop(l, r, pos, w, signed, matches) ==
    LET a == ReadElem(l, pos, w, signed)
        b == ReadElem(r, pos, w, signed)
    IN  IF a = << >> THEN Ok(matches)
        ELSE IF b = << >> THEN Panic(BufferMismatch)
        ELSE TransmuteLoop(l, r, pos + w, w, signed,
                           matches + (IF a[1] = b[1] THEN 1 ELSE 0))

Transmute(l, r, w, signed) ==
    IF Len(l) # Len(r) THEN Panic(SizePanic)
    ELSE TransmuteLoop(l, r, 0, w, signed, 0)

diff_transmute_buffers_i16(l, r) == Transmute(l, r, 2, TRUE)
diff_transmute_buffers_u16(l, r) == Transmute(l, r, 2, FALSE)
diff_transmute_buffers_i32(l, r) == Transmute(l, r, 4, TRUE)
diff_transmute_buffers_u32(l, r) == Transmute(l, r, 4, FALSE)
diff_transmute_buffers_i64(l, r) == Transmute(l, r, 8, TRUE)
diff_transmute_buffers_u64(l, r) == Transmute(l, r, 8, FALSE)


\* Floating point elements are kept as sign, biased exponent and mantissa
\* digits.  |a - b| < 1e-16 is decided exactly where the exponents decide it
\* (NaN and infinities, equal values, two values below 2^-55, two distinct
\* values one of which has a spacing above the tolerance); the band in
\* between needs the exact difference and is left undefined.

read_f32(b) ==
    [neg |-> b[4] >= 128,
     exp |-> (b[4] % 128) * 2 + (b[3] \div 128),
     mant |-> <<b[1], b[2], b[3] % 128>>,
     expmax |-> 255, tiny |-> 71, coarse |-> 98]

read_f64(b) ==
    [neg |-> b[8] >= 128,
     exp |-> (b[8] % 128) * 16 + (b[7] \div 16),
     mant |-> <<b[1], b[2], b[3], b[4], b[5], b[6], b[7] % 16>>,
     expmax |-> 2047, tiny |-> 967, coarse |-> 1023]

IsZeroF(x) == x.exp = 0 /\ \A i \in 1..Len(x.mant) : x.mant[i] = 0

\* (a - b).abs() < tolerance
WithinTolerance(a, b) ==
    CASE a.exp = a.expmax \/ b.exp = b.expmax -> FALSE
      [] a = b -> TRUE
      [] IsZeroF(a) /\ IsZeroF(b) -> TRUE
      [] a.exp <= a.tiny /\ b.exp <= b.tiny -> TRUE
      [] a.exp >= a.coarse \/ b.exp >= b.coarse -> FALSE

RECURSIVE FloatLoop(_, _, _, _, _)
FloatLoop(l, r, pos, w, matches) ==
    IF pos + w > Len(l) THEN Ok(matches)
    ELSE IF pos + w > Len(r) THEN Panic(BufferMismatch)
    ELSE LET lb == SubSeq(l, pos + 1, pos + w)
             rb == SubSeq(r, pos + 1, pos + w)
             a == IF w = 4 THEN read_f32(lb) ELSE read_f64(lb)
             b == IF w = 4 THEN read_f32(rb) ELSE read_f64(rb)
         IN  FloatLoop(l, r, pos + w, w,
                       matches + (IF WithinTolerance(a, b) THEN 1 ELSE 0))

diff_transmute_buffers_f32(l, r) ==
    IF Len(l) # Len(r) THEN Panic(SizePanic) ELSE FloatLoop(l, r, 0, 4, 0)

diff_transmute_buffers_f64(l, r) ==
    IF Len(l) # Len(r) THEN Panic(SizePanic) ELSE FloatLoop(l, r, 0, 8, 0)

-----------------------------------------------------------------------------
(* Readers *)

\* CHUNK_SIZE, scaled down: the capacity of a reader's buffer.
ChunkSize == 16

\* A file as a reader sees it: the bytes still to come, or a read error
\* (reading a directory).
Stream(bytes) == [bytes |-> bytes, err |-> FALSE]
ErrStream == [bytes |-> << >>, err |-> TRUE]

\* BufReader::with_capacity(CHUNK_SIZE, file): nothing buffered yet.
NewReader(src) == [buf |-> << >>, pos |-> 0, src |-> src]

\* what fill_buf returns once the buffer is filled
Available(rd) == SubSeq(rd.buf, rd.pos + 1, Len(rd.buf))

\* the lengths one read of the underlying file may return: at most the
\* capacity, zero only at end of file
ReadLens(rd) ==
    IF rd.src.bytes = << >> THEN {0}
    ELSE 1..Min(ChunkSize, Len(rd.src.bytes))

\* a regular file read without interference returns all it can
FullRead(rd) == Min(ChunkSize, Len(rd.src.bytes))

\* BufReader::fill_buf, the underlying read returning n bytes: reads only
\* when the buffer is used up
fill_buf(rd, n) ==
    IF rd.pos >= Len(rd.buf)
    THEN [buf |-> SubSeq(rd.src.bytes, 1, n), pos |-> 0,
          src |-> [rd.src EXCEPT !.bytes = SubSeq(@, n + 1, Len(@))]]
    ELSE rd

\* BufReader::consume: pos = min(pos + amt, filled)
consume(rd, amt) == [rd EXCEPT !.pos = Min(rd.pos + amt, Len(rd.buf))]


-----------------------------------------------------------------------------
(* Filesystem objects *)

NoHdr == [valid |-> FALSE, dim |-> << >>, datatype |-> 0, vox_offset |-> 0]

\* a regular file: its metadata length, the bytes a reader gets, and what
\* the image header parser makes of it
FileObj(len, bytes, hdr) ==
    [kind |-> "file", len |-> len, bytes |-> bytes, hdr |-> hdr,
     entries |-> << >>]

\* a directory: its metadata length and its listing, in read_dir order
DirObj(len, entries) ==
    [kind |-> "dir", len |-> len, bytes |-> << >>, hdr |-> NoHdr,
     entries |-> entries]

Missing ==
    [kind |-> "missing", len |-> 0, bytes |-> << >>, hdr |-> NoHdr,
     entries |-> << >>]

is_file(o) == o.kind = "file"
is_dir(o) == o.kind = "dir"

\* File::open, then the reads: a directory opens but cannot be read
OpenStream(o) == IF is_file(o) THEN Stream(o.bytes) ELSE ErrStream

-----------------------------------------------------------------------------
(* Streaming File Comparator: diff_bytes *)

\* the metadata lookups and the "both are files" check
diff_bytes_check(l, lo, r, ro) ==
    IF lo.kind = "missing" THEN <<"Left file didn't exist">>
    ELSE IF ro.kind = "missing" THEN <<"Right file didn't exist">>
    ELSE IF ~is_file(lo)
         THEN IF ~is_file(ro)
              THEN l \o <<" and ">> \o r \o <<" are not files!">>
              ELSE <<"Left is not a file!">>
    ELSE << >>

\* the size test written with <= for ==
sizes_match_at_most(lo, ro) == lo.len <= ro.len

\* left_meta.len() == right_meta.len()
sizes_match(lo, ro) == lo.len = ro.len

\* the state of a read loop
LoopState(lr, rr) ==
    [lrd |-> lr, rrd |-> rr, total |-> 0, calls |-> 0, status |-> "loop",
     panic |-> << >>, lbuf |-> << >>, rbuf |-> << >>, count |-> 0]

NeedsRead(rd) == rd.pos >= Len(rd.buf)

\* one iteration of diff_bytes's loop, the two underlying reads returning
\* nl and nr bytes
diff_bytes_iter(st, nl, nr) ==
    IF NeedsRead(st.lrd) /\ st.lrd.src.err
    THEN [st EXCEPT !.status = "panic", !.panic = <<"Uh-oh 2!">>]
    ELSE IF NeedsRead(st.rrd) /\ st.rrd.src.err
    THEN [st EXCEPT !.status = "panic", !.panic = <<"Uh-h 3!">>]
    ELSE
    LET l1 == fill_buf(st.lrd, nl)
        r1 == fill_buf(st.rrd, nr)
        left_buffer == Available(l1)
        right_buffer == Available(r1)
        length == Len(left_buffer)
        res == diff_buffer(left_buffer, right_buffer)
    IN  IF length # 0 /\ IsPanic(res)
        THEN [st EXCEPT !.lrd = l1, !.rrd = r1, !.calls = @ + 1,
                        !.lbuf = left_buffer, !.rbuf = right_buffer,
                        !.status = "panic", !.panic = res.panic]
        ELSE [st EXCEPT
                !.lrd = consume(l1, length),
                !.rrd = consume(r1, length),
                !.total = IF length # 0 THEN @ + res.val ELSE @,
                !.calls = IF length # 0 THEN @ + 1 ELSE @,
                !.lbuf = left_buffer,
                !.rbuf = right_buffer,
                !.count = IF length # 0 THEN res.val ELSE @,
                !.status = IF length = 0 THEN "break" ELSE "loop"]

\* "{:.1}" of n/m * 100: digits before and after the decimal point
Percent1(n, m) ==
    LET q == (1000 * n) \div m
        rem == (1000 * n) % m
        t == IF 2 * rem > m \/ (2 * rem = m /\ q % 2 = 1) THEN q + 1 ELSE q
    IN  <<ToString(t \div 10), ".", ToString(t % 10)>>

\* after the loop: matches, similarity and additional_info
diff_bytes_finish(d0, total, fsize) ==
    LET m == (total = fsize)
    IN  [d0 EXCEPT
           !.matches = m,
           !.similarity = Ratio(total, fsize),
           !.additional_info =
               IF m THEN @
               ELSE <<ToString(total), " of ", ToString(fsize),
                      " bytes match (">> \o Percent1(total, fsize) \o <<"%)">>]

\* the else branch: file size mismatch
diff_bytes_sizes_differ(d0, llen, rlen) ==
    [d0 EXCEPT !.additional_info =
        <<"file sizes differ: ", ToString(llen), " vs. ", ToString(rlen)>>]

\* the report built whether or not the result matches
diff_bytes_report_always(d0) ==
    [d0 EXCEPT !.report =
        d0.left \o <<" vs ">> \o d0.right \o <<": ">> \o d0.additional_info]

\* the report of a result that does not match
diff_bytes_report(d0) ==
    IF ~d0.matches
    THEN [d0 EXCEPT !.report =
             d0.left \o <<" vs ">> \o d0.right \o <<": ">> \o d0.additional_info]
    ELSE d0

RECURSIVE RunBytesLoop(_)
\* the loop run to its end on files nobody touches meanwhile
RunBytesLoop(st) ==
    IF st.status # "loop" THEN st
    ELSE RunBytesLoop(diff_bytes_iter(st, FullRead(st.lrd), FullRead(st.rrd)))

diff_bytes(l, lo, r, ro) ==
    LET bad == diff_bytes_check(l, lo, r, ro)
    IN  IF bad # << >> THEN Panic(bad)
        ELSE IF sizes_match(lo, ro)
        THEN LET st == RunBytesLoop(LoopState(NewReader(OpenStream(lo)),
                                              NewReader(OpenStream(ro))))
             IN  IF st.status = "panic" THEN Panic(st.panic)
                 ELSE Ok(diff_bytes_report(
                          diff_bytes_finish(NewDiff(l, r), st.total, lo.len)))
        ELSE Ok(diff_bytes_report(
                    diff_bytes_sizes_differ(NewDiff(l, r), lo.len, ro.len)))


-----------------------------------------------------------------------------
(* Typed Image Comparator: diff_nii *)

\* gzip, reduced to its framing: the magic number, then the stored payload
GzMagic == <<31, 139>>
IsGz(bytes) == Len(bytes) >= Len(GzMagic) /\ SubSeq(bytes, 1, Len(GzMagic)) = GzMagic
\* GzDecoder::new(file): the decompressed stream, or a stream whose reads fail
GzDecoder(bytes) ==
    IF IsGz(bytes) THEN Stream(SubSeq(bytes, Len(GzMagic) + 1, Len(bytes)))
    ELSE ErrStream

\* ReaderOptions::new().read_file(path): the header of the image, read
\* through a gzip decoder when the path ends in .gz
read_file(path, o) ==
    IF is_file(o) /\ o.hdr.valid /\ (ends_with(path, <<".", "gz">>) <=> IsGz(o.bytes))
    THEN o.hdr ELSE NoHdr

\* the table with 1280 sent to the 32-bit unsigned comparator
select_buffer_differ_1280_as_u32(dtype) ==
    CASE dtype = 4 -> "i16"
      [] dtype = 8 -> "i32"
      [] dtype = 16 -> "f32"
      [] dtype = 64 -> "f64"
      [] dtype = 512 -> "u16"
      [] dtype = 768 -> "u32"
      [] dtype = 1024 -> "i64"
      [] dtype = 1280 -> "u32"
      [] OTHER -> ""

\* the match on the datatype code: the comparator, or "" for the panic arm
select_buffer_differ(dtype) ==
    CASE dtype = 4 -> "i16"
      [] dtype = 8 -> "i32"
      [] dtype = 16 -> "f32"
      [] dtype = 64 -> "f64"
      [] dtype = 512 -> "u16"
      [] dtype = 768 -> "u32"
      [] dtype = 1024 -> "i64"
      [] dtype = 1280 -> "i64"
      [] OTHER -> ""

\* a call through the function pointer
apply_differ(f, a, b) ==
    CASE f = "bytes" -> diff_buffer(a, b)
      [] f = "i16" -> diff_transmute_buffers_i16(a, b)
      [] f = "i32" -> diff_transmute_buffers_i32(a, b)
      [] f = "f32" -> diff_transmute_buffers_f32(a, b)
      [] f = "f64" -> diff_transmute_buffers_f64(a, b)
      [] f = "u16" -> diff_transmute_buffers_u16(a, b)
      [] f = "u32" -> diff_transmute_buffers_u32(a, b)
      [] f = "i64" -> diff_transmute_buffers_i64(a, b)
      [] f = "u64" -> diff_transmute_buffers_u64(a, b)

\* Vec::with_capacity(n) allocates and holds no element
VecWithCapacity(n) == << >>

\* Read::read_exact(buf): reads exactly Len(buf) bytes from the stream
read_exact(src, buf) == [src EXCEPT !.bytes = SubSeq(@, Len(buf) + 1, Len(@))]

\* the readers of diff_voxels_nii_gz when its loop starts
gz_readers(lo, ro, vox_offset) ==
    LET place_holder_buffer == VecWithCapacity(vox_offset)
    IN  LoopState(NewReader(read_exact(GzDecoder(lo.bytes), place_holder_buffer)),
                  NewReader(read_exact(GzDecoder(ro.bytes), place_holder_buffer)))

\* one iteration of diff_voxels_nii_gz's loop, the reads returning nl and nr
diff_voxels_nii_gz_iter(st, nl, nr, f) ==
    IF st.lrd.src.err
    THEN [st EXCEPT !.status = "panic", !.panic = <<"Can't read from left buffer!">>]
    ELSE IF st.rrd.src.err
    THEN [st EXCEPT !.status = "panic", !.panic = <<"Can't read from right buffer!">>]
    ELSE
    LET left_buffer == SubSeq(st.lrd.src.bytes, 1, nl)
        right_buffer == SubSeq(st.rrd.src.bytes, 1, nr)
        res == apply_differ(f, left_buffer, right_buffer)
        l1 == [st.lrd EXCEPT !.src.bytes = SubSeq(@, nl + 1, Len(@))]
        r1 == [st.rrd EXCEPT !.src.bytes = SubSeq(@, nr + 1, Len(@))]
    IN  IF nl # nr
        THEN [st EXCEPT !.lrd = l1, !.rrd = r1,
                        !.lbuf = left_buffer, !.rbuf = right_buffer,
                        !.status = "panic",
                        !.panic = <<"Unexpected file size difference! ">>]
        ELSE IF nl = 0
        THEN [st EXCEPT !.lbuf = left_buffer, !.rbuf = right_buffer,
                        !.status = "break"]
        ELSE IF IsPanic(res)
        THEN [st EXCEPT !.lrd = l1, !.rrd = r1, !.calls = @ + 1,
                        !.lbuf = left_buffer, !.rbuf = right_buffer,
                        !.status = "panic", !.panic = res.panic]
        ELSE [st EXCEPT !.lrd = l1, !.rrd = r1, !.calls = @ + 1,
                        !.lbuf = left_buffer, !.rbuf = right_buffer,
                        !.count = res.val, !.total = @ + res.val]

\* the readers of diff_voxels_nii when its loop starts
nii_readers(lo, ro, vox_offset) ==
    LoopState(consume(NewReader(OpenStream(lo)), vox_offset),
              consume(NewReader(OpenStream(ro)), vox_offset))

\* one iteration of diff_voxels_nii's loop
diff_voxels_nii_iter(st, nl, nr, f) ==
    IF (NeedsRead(st.lrd) /\ st.lrd.src.err) \/ (NeedsRead(st.rrd) /\ st.rrd.src.err)
    THEN [st EXCEPT !.status = "panic", !.panic = <<"UO">>]
    ELSE
    LET l1 == fill_buf(st.lrd, nl)
        r1 == fill_buf(st.rrd, nr)
        left_buffer == Available(l1)
        right_buffer == Available(r1)
        length == Len(left_buffer)
        res == apply_differ(f, left_buffer, right_buffer)
    IN  IF length # 0 /\ IsPanic(res)
        THEN [st EXCEPT !.lrd = l1, !.rrd = r1, !.calls = @ + 1,
                        !.lbuf = left_buffer, !.rbuf = right_buffer,
                        !.status = "panic", !.panic = res.panic]
        ELSE [st EXCEPT
                !.lrd = consume(l1, length),
                !.rrd = consume(r1, length),
                !.total = IF length # 0 THEN @ + res.val ELSE @,
                !.calls = IF length # 0 THEN @ + 1 ELSE @,
                !.lbuf = left_buffer,
                !.rbuf = right_buffer,
                !.count = IF length # 0 THEN res.val ELSE @,
                !.status = IF length = 0 THEN "break" ELSE "loop"]

\* the scan diff_nii runs: by the gz loop when left ends in "gz"
scan_iter(l, st, nl, nr, f) ==
    IF ends_with(l, <<"gz">>) THEN diff_voxels_nii_gz_iter(st, nl, nr, f)
    ELSE diff_voxels_nii_iter(st, nl, nr, f)

scan_readers(l, lo, ro, vox_offset) ==
    IF ends_with(l, <<"gz">>) THEN gz_readers(lo, ro, vox_offset)
    ELSE nii_readers(lo, ro, vox_offset)

RECURSIVE RunScanLoop(_, _, _)
RunScanLoop(l, st, f) ==
    IF st.status # "loop" THEN st
    ELSE RunScanLoop(l, scan_iter(l, st, FullRead(st.lrd), FullRead(st.rrd), f), f)

RECURSIVE ProductFrom(_, _)
\* total_voxels: the product of the entries of dim, a zero counting as one
ProductFrom(dim, i) ==
    IF i > Len(dim) THEN 1
    ELSE (IF dim[i] = 0 THEN 1 ELSE dim[i]) * ProductFrom(dim, i + 1)

total_voxels(dim) == ProductFrom(dim, 1)

\* "{:04.2}" of n/m * 100
Percent2(n, m) ==
    LET q == (10000 * n) \div m
        rem == (10000 * n) % m
        t == IF 2 * rem > m \/ (2 * rem = m /\ q % 2 = 1) THEN q + 1 ELSE q
    IN  <<ToString(t \div 100), ".", ToString((t % 100) \div 10), ToString(t % 10)>>

\* header().dim(): the dim[0] extents that follow dim[0], printed
DimText(dim) == [i \in 1..dim[1] |-> ToString(dim[i + 1])]

\* the type test comparing the comparators the codes select, not the codes
types_match_by_comparator(lh, rh) ==
    select_buffer_differ(lh.datatype) = select_buffer_differ(rh.datatype)

\* the two checks on the headers
shapes_match(lh, rh) == lh.dim = rh.dim
types_match(lh, rh) == lh.datatype = rh.datatype

TypesDiverge(l, r, lh, rh) ==
    l \o <<" vs ">> \o r \o <<": Shapes match, types diverge (",
                                ToString(lh.datatype), " vs. ",
                                ToString(rh.datatype), ")">>

Unsupported(dtype) == <<"Unsupported data type ", ToString(dtype), ", sorry!">>

\* after the scan: the match flag or the voxel report
diff_nii_count(d0, dim, total) ==
    IF total_voxels(dim) = total THEN [d0 EXCEPT !.matches = TRUE]
    ELSE [d0 EXCEPT !.additional_info =
             <<"Voxels diverge: ", ToString(total), " of ",
               ToString(total_voxels(dim)), " match (">>
             \o Percent2(total, total_voxels(dim)) \o <<"%)">>]

diff_nii_shapes_diverge(d0, lh, rh) ==
    [d0 EXCEPT !.additional_info =
        <<"Shapes diverge: ">> \o DimText(lh.dim) \o <<" vs. ">> \o DimText(rh.dim)]

diff_nii_report(d0) ==
    IF ~d0.matches
    THEN [d0 EXCEPT !.report =
             d0.left \o <<" vs. ">> \o d0.right \o <<": ">> \o d0.additional_info]
    ELSE d0

diff_nii(l, lo, r, ro) ==
    LET lh == read_file(l, lo)
        rh == read_file(r, ro)
        d0 == NewDiff(l, r)
    IN  IF ~lh.valid THEN Panic(<<"Cannot read left file as nifti!">>)
        ELSE IF ~rh.valid THEN Panic(<<"Cannot read right file as nifti!">>)
        ELSE IF shapes_match(lh, rh)
        THEN IF ~types_match(lh, rh)
             THEN Ok([d0 EXCEPT !.report = TypesDiverge(l, r, lh, rh)])
             ELSE LET f == select_buffer_differ(lh.datatype)
                  IN  IF f = "" THEN Panic(Unsupported(lh.datatype))
                      ELSE LET st == RunScanLoop(l,
                                       scan_readers(l, lo, ro, lh.vox_offset), f)
                           IN  IF st.status = "panic" THEN Panic(st.panic)
                               ELSE Ok(diff_nii_report(
                                        diff_nii_count(d0, lh.dim, st.total)))
        ELSE Ok(diff_nii_report(diff_nii_shapes_diverge(d0, lh, rh)))


-----------------------------------------------------------------------------
(* Directory Comparator and Dispatcher: diff_directory, differ *)

\* the object names of a listing
onames(entries) == [i \in 1..Len(entries) |-> entries[i].name]

\* the object a name of the listing stands for
Child(o, f) == (CHOOSE e \in Range(o.entries) : e.name = f).obj

RECURSIVE partition_left_prepending(_, _, _, _)
\* the first loop putting each shared name in front of common
partition_left_prepending(d0, left_onames, right_onames, i) ==
    IF i > Len(left_onames) THEN d0
    ELSE LET x == left_onames[i]
         IN  partition_left_prepending(
                 IF Contains(right_onames, x)
                 THEN [d0 EXCEPT !.common = <<x>> \o @]
                 ELSE [d0 EXCEPT !.left_only = Append(@, x)],
                 left_onames, right_onames, i + 1)

RECURSIVE partition_left(_, _, _, _)
\* the loop over left_onames: each name goes to common or to left_only
partition_left(d0, left_onames, right_onames, i) ==
    IF i > Len(left_onames) THEN d0
    ELSE LET x == left_onames[i]
         IN  partition_left(
                 IF Contains(right_onames, x)
                 THEN [d0 EXCEPT !.common = Append(@, x)]
                 ELSE [d0 EXCEPT !.left_only = Append(@, x)],
                 left_onames, right_onames, i + 1)

RECURSIVE partition_right_wrong_list(_, _, _)
\* the second loop testing the name against left_only instead of common
partition_right_wrong_list(d0, right_onames, i) ==
    IF i > Len(right_onames) THEN d0
    ELSE LET x == right_onames[i]
         IN  partition_right_wrong_list(
                 IF ~Contains(d0.left_only, x)
                 THEN [d0 EXCEPT !.right_only = Append(@, x)]
                 ELSE d0,
                 right_onames, i + 1)

RECURSIVE partition_right(_, _, _)
\* the loop over right_onames: a name not in common goes to right_only
partition_right(d0, right_onames, i) ==
    IF i > Len(right_onames) THEN d0
    ELSE LET x == right_onames[i]
         IN  partition_right(
                 IF ~Contains(d0.common, x)
                 THEN [d0 EXCEPT !.right_only = Append(@, x)]
                 ELSE d0,
                 right_onames, i + 1)

partition(d0, left_onames, right_onames) ==
    partition_right(partition_left(d0, left_onames, right_onames, 1),
                    right_onames, 1)

\* the match test forgetting right_only
directory_matches_ignoring_right(d0) ==
    /\ Len(d0.left_only) = 0
    /\ \A i \in 1..Len(d0.sub_diffs) : d0.sub_diffs[i].matches

\* "Determine if there is a match"
directory_matches(d0) ==
    /\ Len(d0.left_only) = 0
    /\ Len(d0.right_only) = 0
    /\ \A i \in 1..Len(d0.sub_diffs) : d0.sub_diffs[i].matches

RECURSIVE JoinNames(_, _)
\* Vec<String>::join(", ")
JoinNames(names, i) ==
    IF i > Len(names) THEN << >>
    ELSE names[i] \o (IF i < Len(names) THEN <<", ">> ELSE << >>)
         \o JoinNames(names, i + 1)

\* colored output: the text between the colour's escape and the reset
Colored(colour, text) == <<colour>> \o text \o <<"reset">>

RECURSIVE SubReports(_, _, _)
\* the reports of the sub-diffs that do not match, banded in two colours
SubReports(subs, i, counts) ==
    IF i > Len(subs) THEN << >>
    ELSE IF ~subs[i].matches
    THEN Colored(IF (counts + 1) % 2 = 0 THEN "bright_cyan" ELSE "bright_magenta",
                 subs[i].report \o <<"\n">>)
         \o SubReports(subs, i + 1, counts + 1)
    ELSE SubReports(subs, i + 1, counts)

directory_report(d0) ==
    d0.left \o <<" vs. ">> \o d0.right \o <<"\n">>
    \o (IF Len(d0.left_only) # 0
        THEN Colored("bright_red", <<"Only in ">> \o d0.left \o <<": ">>
                                   \o JoinNames(d0.left_only, 1) \o <<"\n">>)
        ELSE << >>)
    \o (IF Len(d0.right_only) # 0
        THEN Colored("bright_green", <<"Only in ">> \o d0.right \o <<": ">>
                                     \o JoinNames(d0.right_only, 1) \o <<"\n">>)
        ELSE << >>)
    \o SubReports(d0.sub_diffs, 1, 0)

\* the match flag, or the report
aggregate(d0) ==
    IF directory_matches(d0) THEN [d0 EXCEPT !.matches = TRUE]
    ELSE [d0 EXCEPT !.report = directory_report(d0)]

NiiGz == <<".", "nii", ".", "gz">>
Nii == <<".", "nii">>

RECURSIVE differ(_, _, _, _)
RECURSIVE diff_directory(_, _, _, _)
RECURSIVE sub_diffs_from(_, _, _, _, _, _)

\* the loop over d.common: the outcomes of differ, up to the first panic
sub_diffs_from(l, lo, r, ro, common, i) ==
    IF i > Len(common) THEN Ok(<< >>)
    ELSE LET f == common[i]
             first == differ(Join(l, f), Child(lo, f), Join(r, f), Child(ro, f))
         IN  IF IsPanic(first) THEN first
             ELSE LET rest == sub_diffs_from(l, lo, r, ro, common, i + 1)
                  IN  IF IsPanic(rest) THEN rest
                      ELSE Ok(<<first.val>> \o rest.val)

diff_directory(l, lo, r, ro) ==
    IF lo.kind = "missing" THEN Panic(<<"Left dir didn't exist">>)
    ELSE IF ro.kind = "missing" THEN Panic(<<"Right dir didn't exist">>)
    ELSE IF ~is_dir(lo)
    THEN IF ~is_dir(ro) THEN Panic(<<"Left and right are not dirs!">>)
         ELSE Panic(<<"Left is not a dir!">>)
    ELSE IF ~is_dir(ro) THEN Panic(<<"Boo">>)
    ELSE LET d1 == partition(NewDiff(l, r), onames(lo.entries), onames(ro.entries))
             subs == sub_diffs_from(l, lo, r, ro, d1.common, 1)
         IN  IF IsPanic(subs) THEN subs
             ELSE Ok(aggregate([d1 EXCEPT !.sub_diffs = subs.val]))

differ(l, lo, r, ro) ==
    IF lo.kind = "missing" THEN Panic(<<"Left doesn't exist">>)
    ELSE IF ro.kind = "missing" THEN Panic(<<"Right doesn't exist">>)
    ELSE IF is_dir(lo) THEN diff_directory(l, lo, r, ro)
    ELSE IF ends_with(l, NiiGz) \/ ends_with(l, Nii) THEN diff_nii(l, lo, r, ro)
    ELSE diff_bytes(l, lo, r, ro)


-----------------------------------------------------------------------------
(* The filesystems the comparisons are run on *)

\* bounds
MaxFileLen == 2
DirLen == 2
MaxEntries == 2
VoxOffset == 8

\* sequences over S of length at most n
SeqsUpTo(S, n) == UNION {[1..k -> S] : k \in 0..n}

\* duplicate-free listings of at most n entries, names from N, objects from O
Listings(N, O, n) ==
    {e \in SeqsUpTo([name : N, obj : O], n) :
        \A i, j \in 1..Len(e) : i # j => e[i].name # e[j].name}

\* plain files: every content up to MaxFileLen
FileBytes == {1, 2}
PlainFile(bytes) == FileObj(Len(bytes), bytes, NoHdr)
PlainFiles == {PlainFile(b) : b \in SeqsUpTo(FileBytes, MaxFileLen)}

\* image files: a header of VoxOffset bytes, then the voxels
Hdr(dim, datatype) ==
    [valid |-> TRUE, dim |-> dim, datatype |-> datatype, vox_offset |-> VoxOffset]
\* the header's bytes: they hold the extents and the datatype code
HeaderBytes(dim, datatype) ==
    [i \in 1..VoxOffset |->
        CASE i = 1 -> dim[1]
          [] i = 2 -> dim[2]
          [] i = 3 -> datatype % 256
          [] i = 4 -> datatype \div 256
          [] OTHER -> 0]
ImageFile(dim, datatype, voxels) ==
    FileObj(VoxOffset + Len(voxels), HeaderBytes(dim, datatype) \o voxels,
            Hdr(dim, datatype))
\* the same image, gzip-compressed
Gzipped(o) == FileObj(Len(GzMagic) + o.len, GzMagic \o o.bytes, o.hdr)

Dim1x2 == <<1, 2, 1, 1, 1, 1, 1, 1>>
Dim1x3 == <<1, 3, 0, 0, 0, 0, 0, 0>>
Dim2x2x2 == <<2, 2, 2, 1, 1, 1, 1, 1>>
ImageA == ImageFile(Dim1x2, 4, <<1, 0, 255, 255>>)
ImageB == ImageFile(Dim1x2, 4, <<1, 0, 254, 255>>)
ImageFiles ==
    {ImageA, ImageB,
     ImageFile(Dim1x2, 512, <<1, 0, 255, 255>>),
     ImageFile(Dim1x2, 2, <<1, 0, 255, 255>>),
     ImageFile(Dim1x3, 4, <<1, 0, 255, 255, 7, 0>>),
     ImageFile(Dim2x2x2, 4, <<1, 0, 2, 0, 3, 0, 4, 0>>)}
GzFiles == {Gzipped(ImageA), Gzipped(ImageB)}

NameA == <<"a">>
NameBNii == <<"b", ".", "nii">>
InnerNames == {NameA}
TopNames == {NameA, NameBNii}
InnerLeaves == {PlainFile(<<1>>), PlainFile(<<2>>)}
TopLeaves == InnerLeaves \cup {ImageA}

InnerDirs == {DirObj(DirLen, e) : e \in Listings(InnerNames, InnerLeaves, MaxEntries)}
TopDirs ==
    {DirObj(DirLen, e) : e \in Listings(TopNames, TopLeaves \cup InnerDirs, MaxEntries)}

Objects == PlainFiles \cup ImageFiles \cup GzFiles \cup TopDirs \cup {Missing}

PathX == <<"x">>
PathXNii == <<"x", ".", "nii">>
PathXNiiGz == <<"x", ".", "nii", ".", "gz">>
PathY == <<"y">>
LeftPaths == {PathX, PathXNii, PathXNiiGz}

NoDiff == NewDiff(<< >>, << >>)
NoReader == NewReader(Stream(<< >>))

\* the variables a specification does not use
StreamIdle ==
    /\ lrd = NoReader /\ rrd = NoReader /\ total_matches = 0
    /\ buffer_differ = "" /\ lchunk = << >> /\ rchunk = << >>
    /\ chunk_count = 0 /\ opens = 0 /\ bufcalls = 0
StreamVars ==
    <<lrd, rrd, total_matches, buffer_differ, lchunk, rchunk, chunk_count,
      opens, bufcalls>>
DirIdle == lnames = << >> /\ rnames = << >>

-----------------------------------------------------------------------------
(* main: one comparison of two paths *)

Init ==
    /\ left \in LeftPaths
    /\ right \in {left, PathY}
    /\ lobj \in Objects
    /\ robj \in IF right = left THEN {lobj} ELSE Objects
    /\ pc = "main"
    /\ d = NoDiff
    /\ panicked = << >>
    /\ stdout = << >>
    /\ StreamIdle /\ DirIdle

\* let d = differ(left, right)
CallDiffer ==
    /\ pc = "main"
    /\ LET o == differ(left, lobj, right, robj)
       IN  IF IsPanic(o)
           THEN /\ panicked' = o.panic
                /\ pc' = "panicked"
                /\ d' = d
           ELSE /\ d' = o.val
                /\ pc' = "returned"
                /\ panicked' = panicked
    /\ UNCHANGED <<left, right, lobj, robj, stdout, StreamVars, lnames, rnames>>

\* if !d.matches { println!("{}", d.report) }
PrintReport ==
    /\ pc = "returned"
    /\ stdout' = IF d.matches THEN stdout ELSE d.report \o <<"\n">>
    /\ pc' = "reported"
    /\ UNCHANGED <<left, right, lobj, robj, d, panicked, StreamVars, lnames, rnames>>

\* {:?} of the record: only its first field and its report are rendered here
DebugText(dd) ==
    <<"Diff { matches: ", IF dd.matches THEN "true" ELSE "false", ", report: ">>
        \o dd.report \o <<" }", "\n">>

\* if matches.is_present("debug") { println!("{:?}", d) }
PrintDebug ==
    /\ pc = "reported"
    /\ \E debug \in BOOLEAN :
           stdout' = IF debug THEN stdout \o DebugText(d) ELSE stdout
    /\ pc' = "exit"
    /\ UNCHANGED <<left, right, lobj, robj, d, panicked, StreamVars, lnames, rnames>>

Next == CallDiffer \/ PrintReport \/ PrintDebug

Spec == Init /\ [][Next]_vars


-----------------------------------------------------------------------------
(* diff_directory on two flat directories *)

MaxListing == 3
ListingNames == {<<"a">>, <<"b">>, <<"c">>, <<"e">>}
NameListings ==
    {n \in SeqsUpTo(ListingNames, MaxListing) :
        \A i, j \in 1..Len(n) : i # j => n[i] # n[j]}

\* the content of the file of that name: the two sides disagree on "c"
LeftFile(n) == PlainFile(<<1>>)
RightFile(n) == IF n = <<"c">> THEN PlainFile(<<2>>) ELSE PlainFile(<<1>>)
LeftDir(names) ==
    DirObj(DirLen, [i \in 1..Len(names) |-> [name |-> names[i], obj |-> LeftFile(names[i])]])
RightDir(names) ==
    DirObj(DirLen, [i \in 1..Len(names) |-> [name |-> names[i], obj |-> RightFile(names[i])]])

InitDir ==
    /\ left = PathX /\ right = PathY
    /\ lnames \in NameListings
    /\ rnames \in NameListings
    /\ lobj = LeftDir(lnames)
    /\ robj = RightDir(rnames)
    /\ pc = "dir"
    /\ d = NoDiff
    /\ panicked = << >>
    /\ stdout = << >>
    /\ StreamIdle

\* the left path names a directory, so differ hands both paths to diff_directory
CallDiffDirectory ==
    /\ pc = "dir"
    /\ LET o == differ(left, lobj, right, robj)
       IN  IF IsPanic(o)
           THEN /\ panicked' = o.panic
                /\ pc' = "panicked"
                /\ d' = d
           ELSE /\ d' = o.val
                /\ pc' = "returned"
                /\ panicked' = panicked
    /\ UNCHANGED <<left, right, lobj, robj, stdout, StreamVars, lnames, rnames>>

NextDir == CallDiffDirectory

SpecDir == InitDir /\ [][NextDir]_vars

-----------------------------------------------------------------------------
(* Claims about whole comparisons *)

Returned == pc \in {"returned", "reported", "exit"}
Finished == pc \in {"returned", "reported", "exit", "panicked"}

\* the datatype codes of the table
SupportedCodes == {4, 8, 16, 64, 512, 768, 1024, 1280}

RECURSIVE Reflexible(_, _)
\* X is a regular file (an image of a supported datatype when its name says
\* it is an image) or a directory of such entries
Reflexible(path, o) ==
    CASE is_file(o) ->
           (ends_with(path, Nii) \/ ends_with(path, NiiGz)) =>
               (read_file(path, o).valid /\ o.hdr.datatype \in SupportedCodes)
      [] is_dir(o) ->
           \A i \in 1..Len(o.entries) :
               Reflexible(Join(path, o.entries[i].name), o.entries[i].obj)
      [] OTHER -> FALSE

\* C1: Reflexivity: for every existing X that is a regular file, an image
\* of a supported datatype, or a directory of such entries, differ(X, X)
\* returns a result that matches.
C1_Reflexivity ==
    (Finished /\ left = right /\ Reflexible(left, lobj))
        => (Returned /\ d.matches)

Occurrences(s, x) == Cardinality({i \in 1..Len(s) : s[i] = x})

\* C2: Directory set completeness: after diff_directory has partitioned two
\* duplicate-free listings, every name of either listing occurs exactly once
\* in left_only, right_only and common taken together, and these hold no
\* other name.
C2_SetCompleteness ==
    Returned =>
        /\ \A n \in Range(lnames) \cup Range(rnames) :
               Occurrences(d.left_only, n) + Occurrences(d.right_only, n)
                   + Occurrences(d.common, n) = 1
        /\ Range(d.left_only) \cup Range(d.right_only) \cup Range(d.common)
               \subseteq Range(lnames) \cup Range(rnames)

C2_Witness ==
    /\ Returned
    /\ Len(d.left_only) > 0 /\ Len(d.right_only) > 0 /\ Len(d.common) > 1
    /\ Len(lnames) = MaxListing
    /\ d.common[1] = rnames[Len(rnames)]

RECURSIVE AggregationHolds(_, _)
\* in a directory's result, and in every directory result below it, matches
\* says that nothing is exclusive and every sub-diff matches
AggregationHolds(dd, lo) ==
    is_dir(lo) =>
        /\ dd.matches <=>
               /\ dd.left_only = << >>
               /\ dd.right_only = << >>
               /\ \A i \in 1..Len(dd.sub_diffs) : dd.sub_diffs[i].matches
        /\ \A i \in 1..Len(dd.sub_diffs) :
               AggregationHolds(dd.sub_diffs[i], Child(lo, dd.common[i]))

\* C3: Aggregation correctness: in every result of diff_directory, at every
\* level of the tree, matches is true iff left_only and right_only are empty
\* and every sub-diff matches.
C3_Aggregation == Returned => AggregationHolds(d, lobj)

\* a directory that fails to match only because a directory below it does,
\* which in turn holds a file that does not match
C3_Witness ==
    /\ Returned /\ is_dir(lobj) /\ ~d.matches
    /\ d.left_only = << >> /\ d.right_only = << >>
    /\ \E i \in 1..Len(d.sub_diffs) :
           /\ is_dir(Child(lobj, d.common[i]))
           /\ ~d.sub_diffs[i].matches
           /\ d.sub_diffs[i].sub_diffs # << >>
           /\ d.sub_diffs[i].right_only = << >>
    /\ \E i \in 1..Len(d.sub_diffs) : d.sub_diffs[i].matches

RECURSIVE QuietWhenMatching(_)
QuietWhenMatching(dd) ==
    /\ dd.matches => (dd.report = << >> /\ dd.additional_info = << >>)
    /\ \A i \in 1..Len(dd.sub_diffs) : QuietWhenMatching(dd.sub_diffs[i])

\* C4: in every result record differ returns, and in every record nested in
\* its sub_diffs, matches implies that report and additional_info are empty.
C4_MatchIsQuiet == Returned => QuietWhenMatching(d)

\* a matching directory over a matching directory and a matching file
C4_Witness ==
    /\ Returned /\ d.matches /\ Len(d.sub_diffs) = 2
    /\ \E i \in 1..2 : d.sub_diffs[i].sub_diffs # << >>

RECURSIVE WrongKind(_, _)
\* differ is reached with a directory on one side and a regular file on the
\* other, at the top or under a common name
WrongKind(lo, ro) ==
    \/ is_dir(lo) /\ is_file(ro)
    \/ is_file(lo) /\ is_dir(ro)
    \/ /\ is_dir(lo) /\ is_dir(ro)
       /\ \E i \in 1..Len(lo.entries) :
              /\ Contains(onames(ro.entries), lo.entries[i].name)
              /\ WrongKind(lo.entries[i].obj, Child(ro, lo.entries[i].name))

\* C8: Wrong-kind is fatal: a comparison that meets a directory on one side
\* and a regular file on the other, in either order, aborts with a failure
\* and returns no result record.
C8_WrongKindFatal == (Finished /\ WrongKind(lobj, robj)) => pc = "panicked"


-----------------------------------------------------------------------------
(* diff_bytes, step by step, on files that may be cut short under it *)

MaxStreamLen == 3
\* the lengths of the files: the short ones, and one longer than a chunk
StreamLens == 0..MaxStreamLen \cup {ChunkSize + 1}

\* n bytes, all 1 but for a 2 at the positions D
BytesWith(n, D) == [i \in 1..n |-> IF i \in D THEN 2 ELSE 1]
AtMostOne(n) == {{}} \cup {{i} : i \in 1..n}

\* a file whose metadata says len and whose reads yield bytes: all of it,
\* or less when it was truncated after the metadata was read
LeftStreamFiles ==
    {FileObj(len, BytesWith(n, {}), NoHdr) :
        <<len, n>> \in {p \in StreamLens \X StreamLens : p[2] <= p[1]}}
RightStreamFiles ==
    UNION {{FileObj(p[1], BytesWith(p[2], D), NoHdr) : D \in AtMostOne(p[2])} :
              p \in {q \in StreamLens \X StreamLens : q[2] <= q[1]}}

\* the loop's variables as a loop state, and back
CurLoop ==
    [lrd |-> lrd, rrd |-> rrd, total |-> total_matches, calls |-> bufcalls,
     status |-> "loop", panic |-> << >>, lbuf |-> lchunk, rbuf |-> rchunk,
     count |-> chunk_count]

\* (a panic unwinds the loop: its locals are dropped as they were)
SetLoop(st, after) ==
    /\ lrd' = IF st.status = "panic" THEN lrd ELSE st.lrd
    /\ rrd' = IF st.status = "panic" THEN rrd ELSE st.rrd
    /\ total_matches' = st.total
    /\ bufcalls' = st.calls
    /\ lchunk' = IF st.status = "panic" THEN lchunk ELSE st.lbuf
    /\ rchunk' = IF st.status = "panic" THEN rchunk ELSE st.rbuf
    /\ chunk_count' = st.count
    /\ panicked' = st.panic
    /\ pc' = CASE st.status = "panic" -> "panicked"
               [] st.status = "break" -> after
               [] OTHER -> pc

InitBytes ==
    /\ left = PathX /\ right = PathY
    /\ lobj \in LeftStreamFiles \cup {DirObj(DirLen, << >>)}
    /\ robj \in RightStreamFiles \cup {DirObj(DirLen, << >>)}
    /\ pc = "bytes"
    /\ d = NoDiff
    /\ panicked = << >>
    /\ stdout = << >>
    /\ StreamIdle /\ DirIdle

\* the metadata, the check that both are files, Diff::new and the size test
BytesStart ==
    /\ pc = "bytes"
    /\ LET bad == diff_bytes_check(left, lobj, right, robj)
       IN  IF bad # << >>
           THEN panicked' = bad /\ pc' = "panicked" /\ d' = d
           ELSE /\ d' = NewDiff(left, right)
                /\ pc' = IF sizes_match(lobj, robj) THEN "open" ELSE "sizes_differ"
                /\ panicked' = panicked
    /\ UNCHANGED <<left, right, lobj, robj, stdout, StreamVars, lnames, rnames>>

\* File::open on both, and the two readers
BytesOpen ==
    /\ pc = "open"
    /\ lrd' = NewReader(OpenStream(lobj))
    /\ rrd' = NewReader(OpenStream(robj))
    /\ total_matches' = 0
    /\ opens' = opens + 2
    /\ pc' = "loop"
    /\ UNCHANGED <<left, right, lobj, robj, d, panicked, stdout, buffer_differ,
                   lchunk, rchunk, chunk_count, bufcalls, lnames, rnames>>

\* one iteration of the loop, for whatever the two reads return
BytesLoop ==
    /\ pc = "loop"
    /\ \E nl \in ReadLens(lrd), nr \in ReadLens(rrd) :
           SetLoop(diff_bytes_iter(CurLoop, nl, nr), "finish")
    /\ UNCHANGED <<left, right, lobj, robj, d, stdout, buffer_differ, opens,
                   lnames, rnames>>

BytesFinish ==
    /\ pc = "finish"
    /\ d' = diff_bytes_finish(d, total_matches, lobj.len)
    /\ pc' = "report"
    /\ UNCHANGED <<left, right, lobj, robj, panicked, stdout, StreamVars,
                   lnames, rnames>>

BytesSizesDiffer ==
    /\ pc = "sizes_differ"
    /\ d' = diff_bytes_sizes_differ(d, lobj.len, robj.len)
    /\ pc' = "report"
    /\ UNCHANGED <<left, right, lobj, robj, panicked, stdout, StreamVars,
                   lnames, rnames>>

BytesReport ==
    /\ pc = "report"
    /\ d' = diff_bytes_report(d)
    /\ pc' = "returned"
    /\ UNCHANGED <<left, right, lobj, robj, panicked, stdout, StreamVars,
                   lnames, rnames>>

NextBytes ==
    \/ BytesStart \/ BytesOpen \/ BytesLoop
    \/ BytesFinish \/ BytesSizesDiffer \/ BytesReport

SpecBytes == InitBytes /\ [][NextBytes]_vars

BothFiles == is_file(lobj) /\ is_file(robj)
InUnit(sim) == sim.den > 0 /\ 0 <= sim.num /\ sim.num <= sim.den
IsOne(sim) == sim.den > 0 /\ sim.num = sim.den

\* C5: Similarity bounds: for two regular files of equal size diff_bytes
\* returns a similarity in [0, 1] that is 1 exactly when matches is true;
\* for two empty files it returns a match with similarity 1.
C5_SimilarityBounds ==
    (pc = "returned" /\ BothFiles /\ lobj.len = robj.len) =>
        /\ InUnit(d.similarity)
        /\ IsOne(d.similarity) <=> d.matches
        /\ lobj.len = 0 => (d.matches /\ IsOne(d.similarity))

\* C6: Size short-circuit: for two regular files of different sizes
\* diff_bytes never opens or reads a file, never calls diff_buffer and never
\* fails; it returns matches = false, similarity at the sentinel -1 and an
\* additional_info that reports the two sizes.
C6_SizeShortCircuit ==
    (BothFiles /\ lobj.len # robj.len) =>
        /\ pc # "panicked"
        /\ opens = 0 /\ bufcalls = 0 /\ lrd = NoReader /\ rrd = NoReader
        /\ pc = "returned" =>
               /\ ~d.matches
               /\ d.similarity = Unset
               /\ \E i, j \in 1..Len(d.additional_info) :
                      /\ i < j
                      /\ d.additional_info[i] = ToString(lobj.len)
                      /\ d.additional_info[j] = ToString(robj.len)

C6_Witness ==
    /\ pc = "returned" /\ BothFiles /\ lobj.len # robj.len
    /\ lobj.len > 0 /\ robj.len > 0

\* C10: Stream desynchronization is fatal in diff_bytes: the read loop ends
\* normally only after both sides returned zero bytes, and an iteration in
\* which the two chunk lengths differ aborts the comparison, so no result
\* follows it.
C10_DesyncFatal ==
    (BothFiles /\ lobj.len = robj.len /\ opens > 0) =>
        /\ Len(lchunk) # Len(rchunk) => pc = "panicked"
        /\ pc \in {"finish", "report", "returned"} =>
               (lchunk = << >> /\ rchunk = << >>)


-----------------------------------------------------------------------------
(* diff_nii, step by step *)

\* the datatype codes of the images: the integer codes of the table and two
\* codes outside it (2: unsigned char, 32: complex)
NiiCodes == {4, 8, 512, 768, 1024, 1280, 2, 32}

\* bytes per voxel of a datatype code
VoxelBytes(dtype) ==
    CASE dtype \in {2} -> 1
      [] dtype \in {4, 512} -> 2
      [] dtype \in {8, 768} -> 4
      [] OTHER -> 8

\* the voxel data: n bytes, with the top bit flipped at the positions D
VoxelData(n, D) ==
    [i \in 1..n |-> IF i \in D THEN ((i * 85) + 128) % 256 ELSE (i * 85) % 256]

\* the extents: dim[0] axes, the first of dim[1] voxels
Voxels(dim) == dim[2]

LeftImages ==
    {ImageFile(Dim1x2, dt, VoxelData(Voxels(Dim1x2) * VoxelBytes(dt), {})) :
        dt \in NiiCodes}
\* where the right image may differ from the left: nowhere, or in one byte
\* of its first voxel, of its second voxel, or in its last byte
DiffersAt(n, w) == {{}, {1}, {w + 1}, {n}}
RightImages(lo) ==
    UNION {{ImageFile(dim, dt, VoxelData(Voxels(dim) * VoxelBytes(dt), D)) :
               D \in DiffersAt(Voxels(dim) * VoxelBytes(dt), VoxelBytes(dt))} :
           <<dim, dt>> \in {Dim1x2, Dim1x3} \X {lo.hdr.datatype, 512, 2}}

PathYNii == <<"y", ".", "nii">>
PathYNiiGz == <<"y", ".", "nii", ".", "gz">>

InitNii ==
    /\ left \in {PathXNii, PathXNiiGz}
    /\ right = IF left = PathXNii THEN PathYNii ELSE PathYNiiGz
    /\ \E lo \in LeftImages :
           \E ro \in RightImages(lo) :
               /\ lobj = IF left = PathXNii THEN lo ELSE Gzipped(lo)
               /\ robj = IF left = PathXNii THEN ro ELSE Gzipped(ro)
    /\ pc = "nii"
    /\ d = NoDiff
    /\ panicked = << >>
    /\ stdout = << >>
    /\ StreamIdle /\ DirIdle

LeftHdr == read_file(left, lobj)
RightHdr == read_file(right, robj)

\* the two headers are loaded, and Diff::new
NiiHeaders ==
    /\ pc = "nii"
    /\ IF ~LeftHdr.valid
       THEN panicked' = <<"Cannot read left file as nifti!">> /\ pc' = "panicked" /\ d' = d
       ELSE IF ~RightHdr.valid
       THEN panicked' = <<"Cannot read right file as nifti!">> /\ pc' = "panicked" /\ d' = d
       ELSE d' = NewDiff(left, right) /\ pc' = "shapes" /\ panicked' = panicked
    /\ UNCHANGED <<left, right, lobj, robj, stdout, StreamVars, lnames, rnames>>

\* "Check to see if shapes match"
NiiShapes ==
    /\ pc = "shapes"
    /\ IF shapes_match(LeftHdr, RightHdr)
       THEN d' = d /\ pc' = "types"
       ELSE d' = diff_nii_shapes_diverge(d, LeftHdr, RightHdr) /\ pc' = "report"
    /\ UNCHANGED <<left, right, lobj, robj, panicked, stdout, StreamVars,
                   lnames, rnames>>

\* "Check to see if data types match"
NiiTypes ==
    /\ pc = "types"
    /\ IF ~types_match(LeftHdr, RightHdr)
       THEN /\ d' = [d EXCEPT !.report = TypesDiverge(left, right, LeftHdr, RightHdr)]
            /\ pc' = "returned"
       ELSE d' = d /\ pc' = "select"
    /\ UNCHANGED <<left, right, lobj, robj, panicked, stdout, StreamVars,
                   lnames, rnames>>

\* "Build a function to run the correct buffer transmuter"
NiiSelect ==
    /\ pc = "select"
    /\ LET f == select_buffer_differ(LeftHdr.datatype)
       IN  IF f = ""
           THEN /\ panicked' = Unsupported(LeftHdr.datatype)
                /\ pc' = "panicked"
                /\ buffer_differ' = buffer_differ
           ELSE /\ buffer_differ' = f
                /\ pc' = "open"
                /\ panicked' = panicked
    /\ UNCHANGED <<left, right, lobj, robj, d, stdout, lrd, rrd, total_matches,
                   lchunk, rchunk, chunk_count, opens, bufcalls, lnames, rnames>>

\* diff_voxels_nii / diff_voxels_nii_gz up to their loop
NiiOpen ==
    /\ pc = "open"
    /\ LET st == scan_readers(left, lobj, robj, LeftHdr.vox_offset)
       IN  lrd' = st.lrd /\ rrd' = st.rrd
    /\ total_matches' = 0
    /\ opens' = opens + 2
    /\ pc' = "scan"
    /\ UNCHANGED <<left, right, lobj, robj, d, panicked, stdout, buffer_differ,
                   lchunk, rchunk, chunk_count, bufcalls, lnames, rnames>>

\* one iteration of the scan loop, for whatever the two reads return
NiiScan ==
    /\ pc = "scan"
    /\ \E nl \in ReadLens(lrd), nr \in ReadLens(rrd) :
           SetLoop(scan_iter(left, CurLoop, nl, nr, buffer_differ), "count")
    /\ UNCHANGED <<left, right, lobj, robj, d, stdout, buffer_differ, opens,
                   lnames, rnames>>

NiiCount ==
    /\ pc = "count"
    /\ d' = diff_nii_count(d, LeftHdr.dim, total_matches)
    /\ pc' = "report"
    /\ UNCHANGED <<left, right, lobj, robj, panicked, stdout, StreamVars,
                   lnames, rnames>>

NiiReport ==
    /\ pc = "report"
    /\ d' = diff_nii_report(d)
    /\ pc' = "returned"
    /\ UNCHANGED <<left, right, lobj, robj, panicked, stdout, StreamVars,
                   lnames, rnames>>

NextNii ==
    \/ NiiHeaders \/ NiiShapes \/ NiiTypes \/ NiiSelect
    \/ NiiOpen \/ NiiScan \/ NiiCount \/ NiiReport

SpecNii == InitNii /\ [][NextNii]_vars

\* C7: Image type mismatch: two headers with the same dim and different
\* datatype codes, supported or not, make diff_nii return a result that does
\* not match and whose report says "Shapes match, types diverge"; no
\* comparator is selected, no file is opened or read, and nothing fails.
C7_TypeMismatch ==
    (LeftHdr.valid /\ RightHdr.valid /\ LeftHdr.dim = RightHdr.dim
         /\ LeftHdr.datatype # RightHdr.datatype) =>
        /\ pc \in {"nii", "shapes", "types", "returned"}
        /\ buffer_differ = "" /\ opens = 0 /\ bufcalls = 0
        /\ lrd = NoReader /\ rrd = NoReader
        /\ pc = "returned" =>
               /\ ~d.matches
               /\ Contains(d.report, ": Shapes match, types diverge (")

\* two codes outside the table, and a supported one against an unsupported
C7_Witness ==
    /\ pc = "returned"
    /\ LeftHdr.dim = RightHdr.dim
    /\ LeftHdr.datatype = 32 /\ RightHdr.datatype = 2
    /\ ends_with(left, <<"gz">>)

\* the element type the table assigns to a code: width and signedness
TableWidth(dtype) ==
    CASE dtype \in {4, 512} -> 2 [] dtype \in {8, 768} -> 4 [] dtype \in {1024, 1280} -> 8
TableSigned(dtype) == dtype \in {4, 8, 1024}
IntegerCodes == {4, 8, 512, 768, 1024, 1280}

\* the k-th little-endian element of a buffer as the table's type: its
\* 16-bit limbs, the sign bit of a signed type taken out of the top limb
ElementAt(buf, k, w, signed) ==
    LET limbs == [j \in 1..(w \div 2) |->
                     buf[k * w + 2 * j - 1] + 256 * buf[k * w + 2 * j]]
        top == limbs[w \div 2]
    IN  IF signed
        THEN <<top \div 32768, [limbs EXCEPT ![w \div 2] = top % 32768]>>
        ELSE <<0, limbs>>

\* the number of whole elements at which two buffers hold the same value
EqualElements(a, b, w, signed) ==
    Cardinality({k \in 0..((Len(a) \div w) - 1) :
                    ElementAt(a, k, w, signed) = ElementAt(b, k, w, signed)})

\* C9: Type-code mapping: for the codes 4, 8, 512, 768, 1024 and 1280 the
\* comparator diff_nii selects returns, on every pair of equal-length
\* buffers it is given, the number of little-endian elements that are equal
\* as the type the table assigns to the code (1280: 64-bit unsigned); a code
\* outside the table makes diff_nii fail as an unsupported data type.
C9_TypeCodeMapping ==
    LET dt == LeftHdr.datatype
    IN  (LeftHdr.dim = RightHdr.dim /\ dt = RightHdr.datatype
             /\ pc \notin {"nii", "shapes", "types", "select"}) =>
            /\ (dt \in IntegerCodes /\ lchunk # << >> /\ Len(lchunk) = Len(rchunk)) =>
                   chunk_count = EqualElements(lchunk, rchunk, TableWidth(dt),
                                               TableSigned(dt))
            /\ dt \in IntegerCodes => panicked # Unsupported(dt)
            /\ dt \notin SupportedCodes =>
                   (pc = "panicked" /\ panicked = Unsupported(dt))

\* the 64-bit unsigned code compared two chunks that differ in one element
\* and end in a partial element
C9_Witness ==
    /\ LeftHdr.datatype = 1280 /\ RightHdr.datatype = 1280
    /\ pc = "scan"
    /\ Len(lchunk) > 8 /\ Len(lchunk) % 8 # 0 /\ Len(rchunk) = Len(lchunk)
    /\ SubSeq(lchunk, 1, 8) = SubSeq(rchunk, 1, 8)
    /\ lchunk # rchunk
    /\ chunk_count = 1

\* what a reader has still to hand out: its buffered bytes, then the file's
Unread(rd) == Available(rd) \o rd.src.bytes

\* the stream the scan opens on a path: decompressed when the path ends in gz
ScanStream(path, o) ==
    IF ends_with(path, <<"gz">>) THEN GzDecoder(o.bytes) ELSE OpenStream(o)

\* the stream bytes from position k to the end
FromOffset(path, o, k) ==
    LET b == ScanStream(path, o).bytes IN SubSeq(b, k + 1, Len(b))

IsPrefix(a, b) == Len(a) <= Len(b) /\ SubSeq(b, 1, Len(a)) = a

\* C11: Header skip: on the uncompressed and on the gzip path, when the
\* compare loop starts the first vox_offset bytes of each stream have been
\* consumed, so what the readers still hold is the stream from vox_offset on,
\* and the first chunk pair handed to the typed comparator is a prefix of it.
C11_HeaderSkip ==
    /\ (pc = "scan" /\ bufcalls = 0) =>
           /\ Unread(lrd) = FromOffset(left, lobj, LeftHdr.vox_offset)
           /\ Unread(rrd) = FromOffset(right, robj, LeftHdr.vox_offset)
    /\ (pc \in {"scan", "count"} /\ bufcalls = 1) =>
           /\ IsPrefix(lchunk, FromOffset(left, lobj, LeftHdr.vox_offset))
           /\ IsPrefix(rchunk, FromOffset(right, robj, LeftHdr.vox_offset))

\* the result differ gives for the pair of entries called f
SubDiffOf(f) ==
    differ(Join(left, f), Child(lobj, f), Join(right, f), Child(robj, f)).val

\* C12: Ordering in diff_directory: common and left_only are the names of
\* the left listing that the right listing has, respectively lacks, in left
\* listing order; right_only is the names of the right listing that are not
\* in common, in right listing order; sub_diffs is as long as common and its
\* i-th entry is the result of differ on (left/common[i], right/common[i]).
C12_Ordering ==
    Returned =>
        /\ d.common = SelectSeq(lnames, LAMBDA x : Contains(rnames, x))
        /\ d.left_only = SelectSeq(lnames, LAMBDA x : ~Contains(rnames, x))
        /\ d.right_only = SelectSeq(rnames, LAMBDA x : ~Contains(d.common, x))
        /\ Len(d.sub_diffs) = Len(d.common)
        /\ \A i \in 1..Len(d.common) :
               /\ d.sub_diffs[i].left = Join(left, d.common[i])
               /\ d.sub_diffs[i].right = Join(right, d.common[i])
               /\ d.sub_diffs[i] = SubDiffOf(d.common[i])

\* two shared names that the right listing has in the other order, one of
\* them differing, and a name only on each side
C12_Witness ==
    /\ Returned
    /\ Len(d.common) = 2 /\ Len(d.left_only) = 1 /\ Len(d.right_only) = 1
    /\ \E i, j \in 1..Len(rnames) :
           i < j /\ rnames[i] = d.common[2] /\ rnames[j] = d.common[1]
    /\ lnames[1] = d.left_only[1]
    /\ d.sub_diffs[1].matches /\ ~d.sub_diffs[2].matches

\* the two streams as the scan loop finds them when it starts
ScannedLeft == Unread(scan_readers(left, lobj, robj, LeftHdr.vox_offset).lrd)
ScannedRight == Unread(scan_readers(left, lobj, robj, LeftHdr.vox_offset).rrd)

\* C13: Chunking independence: for two streams of equal length and an
\* element width of 2, 4 or 8, the total of the typed scan loop, once it has
\* ended normally (so the two sides returned the same length at each step),
\* is the number of equal elements of the whole streams, whatever chunk
\* lengths the readers returned.
C13_ChunkingIndependence ==
    LET dt == LeftHdr.datatype
    IN  (pc = "count" /\ dt \in IntegerCodes
             /\ Len(ScannedLeft) = Len(ScannedRight)) =>
            total_matches = EqualElements(ScannedLeft, ScannedRight,
                                          TableWidth(dt), TableSigned(dt))

=============================================================================
